---- MODULE Spec2Model ----
(***************************************************************************)
(* Verification model of the pytorch-fundamentals notebooks.               *)
(*                                                                         *)
(*   SpecLoader : the two TarImageDataset classes read through a          *)
(*                DataLoader (custom data loaders notebook)                *)
(*   SpecGather : batch_gather / batch_gather_jit / batch_gather_vec      *)
(*                (TorchScript notebook)                                   *)
(*   SpecHooks  : the tensor-hook and forward-hook cells                  *)
(*                (advanced usage notebook)                                *)
(*   SpecTrain  : the ResNet training loop with its MultiStepLR scheduler  *)
(*                                                                         *)
(* Python objects are 0-based, TLA+ sequences are 1-based: element k of a  *)
(* Python list is element k+1 of the sequence that models it.              *)
(***************************************************************************)
EXTENDS Integers, Sequences, FiniteSets, TLC

VARIABLES
    \* ---- data loading -------------------------------------------------
    dataset,      \* which TarImageDataset class the DataLoader wraps
    file_list,    \* self.file_list of the tar_path dataset (os.listdir)
    paths,        \* self.paths of the sharded dataset
    num_workers,  \* DataLoader(num_workers=...)
    wpc,          \* per loading process: "idle", "iter", "done", "error"
    werr,         \* per loading process: the exception raised, or "none"
    wit,          \* per loading process: what its iterator has still to yield
    wout,         \* per loading process: the items it has yielded, in order
    wread,        \* per loading process: paths handed to tar_image_iterator
    \* ---- batch gather ---------------------------------------------------
    tensor,       \* the input tensor: rows of cells
    indices,      \* the index tensor: one entry (scalar or row) per row
    gpc,          \* which of the three functions runs next
    out_loop,     \* result of batch_gather
    out_jit,      \* result of batch_gather_jit
    out_vec,      \* result of batch_gather_vec
    \* ---- hooks ----------------------------------------------------------
    cell,         \* the notebook cell that is being run
    hpc,          \* position inside the cell
    stdout,       \* what the cell has printed, in order
    a_grad,       \* a.grad per experiment (tenths)
    b_grad,       \* b.grad per experiment (tenths)
    b_hooks,      \* hooks registered on b, in registration order
    conv_w,       \* net.conv.weight
    conv_b,       \* net.conv.bias
    fc1_w,        \* net.fc1.weight
    seq_w,        \* weights of the two layers of net.seq
    inp,          \* the input of the most recent forward pass
    x,            \* the ReLU output kept by the autograd graph
    x_hooks,      \* hooks registered on x, in registration order
    param_hooks,  \* per parameter: hooks registered on it
    grads,        \* per parameter: its .grad
    conv_grad,    \* the gradient autograd hands to the conv layer's output
    hook_log,     \* calls of the hooks on x: which hook, with which gradient
    forward_hooks,\* per registered submodule: its forward hooks
    visualisation,\* the dictionary of captured outputs
    passes,       \* forward passes run so far
    \* ---- training loop ---------------------------------------------------
    tpc,          \* position in the training cell: "train", "eval", "done"
    epoch,        \* the loop variable of  for epoch in range(10)
    lr,           \* optimizer.param_groups[0]['lr'] (thousandths)
    last_epoch,   \* scheduler.last_epoch
    step_lr,      \* the learning rate of the latest optimizer.step()
    train_i,      \* training batches consumed in this epoch
    test_i,       \* test batches consumed in this epoch
    total,        \* total of the evaluation
    correct,      \* correct of the evaluation
    training,     \* clf.training
    printed       \* the latest "Epoch : .. Test Acc : .." line

loaderVars == <<dataset, file_list, paths, num_workers, wpc, werr, wit, wout, wread>>
gatherVars == <<tensor, indices, gpc, out_loop, out_jit, out_vec>>
expVars    == <<a_grad, b_grad, b_hooks>>
netVars    == <<conv_w, conv_b, fc1_w, seq_w, inp>>
bwdVars    == <<x, x_hooks, param_hooks, grads, conv_grad, hook_log>>
visVars    == <<forward_hooks, visualisation, passes>>
hookVars   == <<cell, hpc, stdout, expVars, netVars, bwdVars, visVars>>
trainVars  == <<tpc, epoch, lr, last_epoch, step_lr, train_i, test_i, total, correct,
                training, printed>>
vars       == <<loaderVars, gatherVars, hookVars, trainVars>>

(***************************************************************************)
(* Small helpers                                                           *)
(***************************************************************************)
Range(s) == {s[k] : k \in DOMAIN s}

InjSeqs(S, n) == {s \in [1..n -> S] : \A a, b \in 1..n : a # b => s[a] # s[b]}

RECURSIVE SumSeq(_)
SumSeq(s) == IF s = <<>> THEN 0 ELSE Head(s) + SumSeq(Tail(s))

(***************************************************************************)
(* DATA LOADING                                                            *)
(***************************************************************************)
MaxWorkers == 3      \* largest DataLoader(num_workers=...) explored
MaxFiles   == 3      \* largest number of files / tar shards explored
ItemsPerTar == 2     \* items stored in every tar shard

Files == 1..MaxFiles

\* Loading processes: the main process alone when num_workers = 0, the
\* worker processes 0..num_workers-1 otherwise.
Slots == 0..(MaxWorkers - 1)
Procs == IF num_workers = 0 THEN {0} ELSE 0..(num_workers - 1)

\* torch.utils.data.get_worker_info(): None in the main process, otherwise
\* an object carrying the attributes the notebook reads from it.
NoWorkerInfo == [none |-> TRUE]
get_worker_info(w) ==
    IF num_workers = 0 THEN NoWorkerInfo
    ELSE [id |-> w, num_workers |-> num_workers]

\* Python attribute access obj.name: the value, or AttributeError.
GetAttr(obj, name) ==
    IF name \in DOMAIN obj THEN [ok |-> TRUE, val |-> obj[name]]
    ELSE [ok |-> FALSE, val |-> 0]

\* The per-file iterator the sharded dataset delegates to: the items of
\* one tar file, in archive order.
tar_image_iterator(p) == [k \in 1..ItemsPerTar |-> <<"item", p, k>>]

\* generate_samples(): one opened image per entry of file_list, in order.
generate_samples == [k \in 1..Len(file_list) |-> <<"image", file_list[k]>>]

\* file_list[start:end] of the multi-process branch.
WorkerSlice(info) ==
    LET per_worker == Len(file_list) \div info.num_workers
        start      == info.id * per_worker
        end        == (info.id + 1) * per_worker
    IN  SubSeq(file_list, start + 1, end)

\* TarImageDataset(tar_path).__iter__ in process w.
TarIter(w) ==
    /\ dataset = "tar_path"
    /\ w \in Procs
    /\ wpc[w] = "idle"
    /\ LET worker_info == get_worker_info(w) IN
         wit' = [wit EXCEPT ![w] =
                   IF worker_info = NoWorkerInfo THEN generate_samples
                   ELSE WorkerSlice(worker_info)]
    /\ wpc' = [wpc EXCEPT ![w] = "iter"]
    /\ UNCHANGED <<dataset, file_list, paths, num_workers, werr, wout, wread>>
    /\ UNCHANGED <<gatherVars, hookVars, trainVars>>

\* The guard of the sharded dataset's __iter__.
WorkerCountMismatchNoNone(worker_info) ==
    /\ worker_info # NoWorkerInfo
    /\ worker_info.num_workers # Len(paths)

WorkerCountMismatch(worker_info) ==
    \/ worker_info = NoWorkerInfo
    \/ worker_info.num_workers # Len(paths)

\* TarImageDataset(paths).__iter__ in process w, up to its first yield: the
\* generator body runs when the loader asks for the first item.
ShardedIter(w) ==
    /\ dataset = "paths"
    /\ w \in Procs
    /\ wpc[w] = "idle"
    /\ LET worker_info == get_worker_info(w)
           wid         == GetAttr(worker_info, "worker_id")
       IN  IF WorkerCountMismatch(worker_info)
           THEN /\ wpc'  = [wpc EXCEPT ![w] = "error"]
                /\ werr' = [werr EXCEPT ![w] = "ValueError"]
                /\ UNCHANGED <<wit, wread>>
           ELSE IF ~wid.ok
           THEN /\ wpc'  = [wpc EXCEPT ![w] = "error"]
                /\ werr' = [werr EXCEPT ![w] = "AttributeError"]
                /\ UNCHANGED <<wit, wread>>
           ELSE /\ wpc'   = [wpc EXCEPT ![w] = "iter"]
                /\ wread' = [wread EXCEPT ![w] = @ \cup {paths[wid.val + 1]}]
                /\ wit'   = [wit EXCEPT ![w] = tar_image_iterator(paths[wid.val + 1])]
                /\ UNCHANGED werr
    /\ UNCHANGED <<dataset, file_list, paths, num_workers, wout>>
    /\ UNCHANGED <<gatherVars, hookVars, trainVars>>

\* The loader takes the next item of process w's iterator; an exhausted
\* iterator ends the process's iteration.
Fetch(w) ==
    /\ w \in Procs
    /\ wpc[w] = "iter"
    /\ IF wit[w] = <<>>
       THEN /\ wpc' = [wpc EXCEPT ![w] = "done"]
            /\ UNCHANGED <<wit, wout>>
       ELSE /\ wout' = [wout EXCEPT ![w] = Append(@, Head(wit[w]))]
            /\ wit'  = [wit EXCEPT ![w] = Tail(@)]
            /\ UNCHANGED wpc
    /\ UNCHANGED <<dataset, file_list, paths, num_workers, werr, wread>>
    /\ UNCHANGED <<gatherVars, hookVars, trainVars>>

TrainIdle ==
    /\ tpc = "off"
    /\ epoch = 0
    /\ lr = 0
    /\ last_epoch = 0
    /\ step_lr = 0
    /\ train_i = 0
    /\ test_i = 0
    /\ total = 0
    /\ correct = 0
    /\ training = TRUE
    /\ printed = <<>>

LoaderIdle ==
    /\ dataset = "none"
    /\ file_list = <<>>
    /\ paths = <<>>
    /\ num_workers = 0
    /\ wpc   = [w \in Slots |-> "idle"]
    /\ werr  = [w \in Slots |-> "none"]
    /\ wit   = [w \in Slots |-> <<>>]
    /\ wout  = [w \in Slots |-> <<>>]
    /\ wread = [w \in Slots |-> {}]

GatherIdle ==
    /\ tensor = <<>>
    /\ indices = <<>>
    /\ gpc = "off"
    /\ out_loop = <<>>
    /\ out_jit = <<>>
    /\ out_vec = <<>>

\* Python's None, and the empty dict.
None == <<>>
EmptyDict == <<>>

HooksReset ==
    /\ stdout = <<>>
    /\ a_grad = <<None, None>>
    /\ b_grad = <<None, None>>
    /\ b_hooks = <<>>
    /\ conv_w = 0
    /\ conv_b = 0
    /\ fc1_w = <<>>
    /\ seq_w = <<>>
    /\ inp = <<>>
    /\ x = <<>>
    /\ x_hooks = <<>>
    /\ param_hooks = EmptyDict
    /\ grads = EmptyDict
    /\ conv_grad = None
    /\ hook_log = <<>>
    /\ forward_hooks = EmptyDict
    /\ visualisation = EmptyDict
    /\ passes = 0

HooksIdle ==
    /\ cell = "none"
    /\ hpc = "off"
    /\ HooksReset

\* DataLoader(TarImageDataset(...), num_workers=n): the dataset is built
\* from a listing of distinct file names, or from a list of distinct tar paths.
LoaderInit ==
    /\ dataset \in {"tar_path", "paths"}
    /\ num_workers \in 0..MaxWorkers
    /\ \E n \in 0..MaxFiles : \E s \in InjSeqs(Files, n) :
         /\ file_list = IF dataset = "tar_path" THEN s ELSE <<>>
         /\ paths     = IF dataset = "paths" THEN s ELSE <<>>
    /\ wpc   = [w \in Slots |-> "idle"]
    /\ werr  = [w \in Slots |-> "none"]
    /\ wit   = [w \in Slots |-> <<>>]
    /\ wout  = [w \in Slots |-> <<>>]
    /\ wread = [w \in Slots |-> {}]
    /\ GatherIdle
    /\ HooksIdle
    /\ TrainIdle

LoaderNext == \E w \in Slots : TarIter(w) \/ ShardedIter(w) \/ Fetch(w)

SpecLoader == LoaderInit /\ [][LoaderNext]_vars

(***************************************************************************)
(* Claims about data loading                                               *)
(***************************************************************************)
\* C1: iterating the sharded TarImageDataset raises ValueError whenever there
\* is no worker context (num_workers = 0) or the worker count differs from
\* len(paths); the process then has yielded nothing and tar_image_iterator
\* was never invoked.
C1_MismatchRaisesValueError ==
    \A w \in Procs :
        ( /\ dataset = "paths"
          /\ wpc[w] # "idle"
          /\ (num_workers = 0 \/ num_workers # Len(paths)) )
        => /\ wpc[w] = "error"
           /\ werr[w] = "ValueError"
           /\ wout[w] = <<>>
           /\ wread[w] = {}

\* Single-process loading of a non-empty list of shards has raised.
C1_Witness ==
    /\ dataset = "paths"
    /\ num_workers = 0
    /\ Len(paths) > 0
    /\ wpc[0] = "error"
    /\ werr[0] = "ValueError"

\* C2: with num_workers = len(paths), worker i reads paths[i] and no other
\* path, no two workers read the same path, and every path is read by
\* exactly one worker.
C2_OneDisjointShardPerWorker ==
    ( /\ dataset = "paths"
      /\ num_workers >= 1
      /\ num_workers = Len(paths)
      /\ \A w \in Procs : wpc[w] # "idle" )
    => /\ \A w \in Procs : wread[w] = {paths[w + 1]}
       /\ \A v, w \in Procs : v # w => wread[v] \cap wread[w] = {}
       /\ \A k \in DOMAIN paths :
            Cardinality({w \in Procs : paths[k] \in wread[w]}) = 1

\* C3: reading the tar_path dataset with more than one worker produces
\* duplicated items: once every worker has finished, some item was yielded
\* twice.
C3_MultiWorkerDuplicates ==
    ( /\ dataset = "tar_path"
      /\ num_workers > 1
      /\ Len(file_list) >= num_workers
      /\ \A w \in Procs : wpc[w] = "done" )
    => \E v, w \in Procs : \E a \in DOMAIN wout[v] : \E b \in DOMAIN wout[w] :
          /\ <<v, a>> # <<w, b>>
          /\ wout[v][a] = wout[w][b]

\* C12: when the worker-count check passes, a worker yields exactly the
\* sequence tar_image_iterator produces for its path, in that order, and
\* its iteration ends when that iterator is exhausted.
C12_WorkerYieldsItsTarItems ==
    \A w \in Procs :
        ( /\ dataset = "paths"
          /\ num_workers >= 1
          /\ num_workers = Len(paths)
          /\ wpc[w] \notin {"idle", "iter"} )
        => /\ wpc[w] = "done"
           /\ werr[w] = "none"
           /\ wout[w] = tar_image_iterator(paths[w + 1])

(***************************************************************************)
(* BATCH GATHER                                                            *)
(*                                                                         *)
(* A tensor of shape [s0, s1] + rest is a sequence of s0 rows of s1 cells; *)
(* a cell is the row-major data of the trailing dimensions (one number for *)
(* a 2-D tensor).  An index tensor is [ndim, rows]: rows[i] holds the      *)
(* entries of indices[i] (exactly one entry when the index tensor is 1-D). *)
(***************************************************************************)
MaxRows  == 2        \* largest tensor.size(0) explored
MaxCols  == 2        \* largest tensor.size(1) explored
MaxIdx   == 1        \* largest indices.size(1) explored
MaxTrail == 2        \* largest number of values in a cell

IndexError == <<-1>>   \* stands for a raised IndexError

\* torch.arange(n)
arange(n) == [k \in 1..n |-> k - 1]

\* Python/PyTorch integer indexing of a sequence: negative indices count
\* from the end, anything outside -n..n-1 raises.
PyIndex(s, i) ==
    LET n == Len(s) IN
    IF i >= 0 /\ i < n THEN s[i + 1]
    ELSE IF i < 0 /\ i >= -n THEN s[i + n + 1]
    ELSE IndexError

\* row[ix] for an entry ix of the index tensor: a 0-dim entry selects a
\* cell, a 1-dim entry selects one cell per element.
TensorIndex(row, ix, ndim) ==
    IF ndim = 1 THEN PyIndex(row, ix[1])
    ELSE [k \in DOMAIN ix |-> PyIndex(row, ix[k])]

\* The loop of batch_gather from row i (0-based) on, output being the list
\* built so far.
RECURSIVE GatherLoop(_, _, _, _)
GatherLoop(t, idx, i, output) ==
    IF i >= Len(t) THEN output
    ELSE GatherLoop(t, idx, i + 1,
                    output \o <<TensorIndex(t[i + 1], idx.rows[i + 1], idx.ndim)>>)

RECURSIVE GatherLoopPrepend(_, _, _, _)
GatherLoopPrepend(t, idx, i, output) ==
    IF i >= Len(t) THEN output
    ELSE GatherLoopPrepend(t, idx, i + 1,
                    <<TensorIndex(t[i + 1], idx.rows[i + 1], idx.ndim)>> \o output)

\* batch_gather with the list built back to front.
batch_gather_prepend(t, idx) == GatherLoopPrepend(t, idx, 0, <<>>)

\* batch_gather: torch.stack of the per-row selections.
batch_gather(t, idx) == GatherLoop(t, idx, 0, <<>>)

\* batch_gather_jit: the same source compiled by torch.jit.script.
batch_gather_jit(t, idx) == GatherLoop(t, idx, 0, <<>>)

\* torch.reshape(tensor, [shape[0] * shape[1]] + shape[2:])
RECURSIVE FlattenFirst(_)
FlattenFirst(t) == IF t = <<>> THEN <<>> ELSE Head(t) \o FlattenFirst(Tail(t))

\* flat_first[indices + offset] with the given per-row offsets.
IndexFlat(t, idx, offset) ==
    LET flat_first == FlattenFirst(t) IN
    [i \in DOMAIN idx.rows |->
        IF idx.ndim = 1 THEN PyIndex(flat_first, idx.rows[i][1] + offset[i])
        ELSE [k \in DOMAIN idx.rows[i] |->
                 PyIndex(flat_first, idx.rows[i][k] + offset[i])]]

\* batch_gather_vec with the offsets scaled by shape[0].
batch_gather_vec_stride0(t, idx) ==
    LET shape0 == Len(t)
        offset == [i \in 1..shape0 |-> arange(shape0)[i] * shape0]
    IN  IndexFlat(t, idx, offset)

\* batch_gather_vec
batch_gather_vec(t, idx) ==
    LET shape0 == Len(t)
        shape1 == Len(t[1])
        offset == [i \in 1..shape0 |-> arange(shape0)[i] * shape1]
    IN  IndexFlat(t, idx, offset)

\* The tensor torch.arange(s0 * s1 * d).reshape(s0, s1, d): all values differ.
ArangeTensor(s0, s1, d) ==
    [i \in 1..s0 |-> [j \in 1..s1 |->
        [k \in 1..d |-> (((i - 1) * s1 + (j - 1)) * d) + (k - 1)]]]

\* Index tensors for a tensor with s0 rows and s1 columns: entries are any
\* index Python accepts for a row of s1 cells.
IndexTensors(s0, s1) ==
    [ndim : {1}, rows : [1..s0 -> [1..1 -> (-s1)..(s1 - 1)]]]
    \cup UNION {[ndim : {2}, rows : [1..s0 -> [1..n -> (-s1)..(s1 - 1)]]] : n \in 1..MaxIdx}

GatherInit ==
    /\ \E s0 \in 1..MaxRows : \E s1 \in 1..MaxCols : \E d \in 1..MaxTrail :
         /\ tensor = ArangeTensor(s0, s1, d)
         /\ indices \in IndexTensors(s0, s1)
    /\ gpc = "loop"
    /\ out_loop = <<>>
    /\ out_jit = <<>>
    /\ out_vec = <<>>
    /\ LoaderIdle
    /\ HooksIdle
    /\ TrainIdle

RunBatchGather ==
    /\ gpc = "loop"
    /\ out_loop' = batch_gather(tensor, indices)
    /\ gpc' = "jit"
    /\ UNCHANGED <<tensor, indices, out_jit, out_vec>>
    /\ UNCHANGED <<loaderVars, hookVars, trainVars>>

RunBatchGatherJit ==
    /\ gpc = "jit"
    /\ out_jit' = batch_gather_jit(tensor, indices)
    /\ gpc' = "vec"
    /\ UNCHANGED <<tensor, indices, out_loop, out_vec>>
    /\ UNCHANGED <<loaderVars, hookVars, trainVars>>

RunBatchGatherVec ==
    /\ gpc = "vec"
    /\ out_vec' = batch_gather_vec(tensor, indices)
    /\ gpc' = "done"
    /\ UNCHANGED <<tensor, indices, out_loop, out_jit>>
    /\ UNCHANGED <<loaderVars, hookVars, trainVars>>

GatherNext == RunBatchGather \/ RunBatchGatherJit \/ RunBatchGatherVec

SpecGather == GatherInit /\ [][GatherNext]_vars

(***************************************************************************)
(* Claims about batch gather                                               *)
(***************************************************************************)
\* All entries of the index tensor are column numbers 0..shape[1]-1.
ColumnIndices ==
    \A i \in DOMAIN indices.rows : \A k \in DOMAIN indices.rows[i] :
        indices.rows[i][k] \in 0..(Len(tensor[1]) - 1)

\* C4: batch_gather returns one entry per row of the tensor, in row order,
\* and entry i is tensor[i][indices[i]].
C4_BatchGatherRowwise ==
    gpc # "loop" =>
        /\ Len(out_loop) = Len(tensor)
        /\ \A i \in 1..Len(tensor) :
             out_loop[i] = TensorIndex(tensor[i], indices.rows[i], indices.ndim)

\* batch_gather has run on a tensor with two rows whose selections differ.
C4_Witness ==
    /\ gpc # "loop"
    /\ Len(tensor) >= 2
    /\ out_loop[1] # out_loop[2]

FlatLen     == 2     \* entries of the flattened activation (160 in the notebook)
MaxPasses   == 2     \* forward passes explored in the forward-hook cell
VecLen      == 5     \* torch.ones(5)
OutFeatures == 5     \* nn.Linear(160, 5)
SeqHidden   == 3     \* nn.Linear(5, 3)
SeqOut      == 2     \* nn.Linear(3, 2)

GradScale == 2 * 5   \* the stored value of a gradient of 1.0


DictSet(d, key, v) == [k \in (DOMAIN d) \cup {key} |-> IF k = key THEN v ELSE d[k]]

\* ---- layers -------------------------------------------------------------
Conv2d(w, bias, xin) == [j \in DOMAIN xin |-> w * xin[j] + bias]
ReLU(z) == [j \in DOMAIN z |-> IF z[j] > 0 THEN z[j] ELSE 0]
flatten(z) == z
Linear(W, xin) == [k \in DOMAIN W |-> SumSeq([j \in DOMAIN xin |-> W[k][j] * xin[j]])]

\* torch.randn inputs and freshly initialised weights, from small sets.
Inputs == [1..FlatLen -> {-1, 1}]
ConvWeights == {-1, 1}
ConvBiases == {0, 1}
RowsEqual(nout, nin) == {[k \in 1..nout |-> r] : r \in [1..nin -> {-1, 1}]}
Uniform(nout, nin) == {[k \in 1..nout |-> [j \in 1..nin |-> v]] : v \in {-1, 1}}

\* ---- tensor hooks -------------------------------------------------------
\* What a hook returns for gradient g: a tensor, or None.
HookReturn(h, g) ==
    CASE h = "mul2"   -> [k \in DOMAIN g |-> g[k] * 2]
      [] h = "clamp0" -> [k \in DOMAIN g |-> IF g[k] < 0 THEN 0 ELSE g[k]]
      [] h = "zeros"  -> [k \in DOMAIN g |-> 0]
      [] OTHER        -> None

\* What a hook prints for gradient g.
HookPrints(h, g) ==
    IF h = "print_neg"
    THEN << <<"Gradients less than zero:", \E k \in DOMAIN g : g[k] < 0>> >>
    ELSE <<>>

\* Autograd runs the hooks of a tensor in registration order; a returned
\* tensor replaces the gradient for what follows, None leaves it as it is.
\* retain_grad() keeps in .grad the gradient as it stands at its own place
\* in that order.
RECURSIVE RunHooksObserveOnly(_, _)
RunHooksObserveOnly(hooks, st) ==
    IF hooks = <<>> THEN st
    ELSE LET h == Head(hooks) IN
         RunHooksObserveOnly(Tail(hooks),
            [grad     |-> st.grad,
             retained |-> IF h = "retain_grad" THEN st.grad ELSE st.retained,
             log      |-> Append(st.log, [hook |-> h, grad |-> st.grad]),
             out      |-> st.out \o HookPrints(h, st.grad)])

RECURSIVE RunHooks(_, _)
RunHooks(hooks, st) ==
    IF hooks = <<>> THEN st
    ELSE LET h   == Head(hooks)
             res == HookReturn(h, st.grad)
         IN  RunHooks(Tail(hooks),
                [grad     |-> IF res = None THEN st.grad ELSE res,
                 retained |-> IF h = "retain_grad" THEN st.grad ELSE st.retained,
                 log      |-> Append(st.log, [hook |-> h, grad |-> st.grad]),
                 out      |-> st.out \o HookPrints(h, st.grad)])

HookStart(g) == [grad |-> g, retained |-> None, log |-> <<>>, out |-> <<>>]

\* Gradient of t.mean() with respect to t, for t of n entries.
MeanBackward(n) == [k \in 1..n |-> GradScale \div n]

\* ---- Experiment 1 / Experiment 2 ----------------------------------------
\* Hooks on b after the experiment's set-up: retain_grad(), then (in
\* Experiment 2) the hook multiplying the gradient by 2.
ExperimentHooks(e) ==
    IF e = 1 THEN <<"retain_grad">> ELSE <<"retain_grad", "mul2">>

\* a = ones(5); b = 2*a; c = b.mean(); c.backward(); print the gradients.
Experiment(e) ==
    /\ cell = "experiment"
    /\ hpc = (IF e = 1 THEN "exp1" ELSE "exp2")
    /\ LET hooks == ExperimentHooks(e)
           r     == RunHooks(hooks, HookStart(MeanBackward(VecLen)))
           ga    == [k \in 1..VecLen |-> 2 * r.grad[k]]
       IN  /\ b_hooks' = hooks
           /\ a_grad' = [a_grad EXCEPT ![e] = ga]
           /\ b_grad' = [b_grad EXCEPT ![e] = r.retained]
           /\ stdout' = stdout \o << <<"Experiment", e>>,
                                     <<"Gradient of a:", ga>>,
                                     <<"Gradient of b:", r.retained>> >>
    /\ hpc' = (IF e = 1 THEN "exp2" ELSE "done")
    /\ UNCHANGED <<cell, netVars, bwdVars, visVars>>
    /\ UNCHANGED <<loaderVars, gatherVars, trainVars>>

\* ---- Proper Way of Using Hooks ------------------------------------------
\* net.named_parameters(), in order, each name spelled out so that the
\* substring tests of the registration loop can be evaluated.
ParamNames == <<"conv.weight", "conv.bias", "fc1.weight", "fc1.bias">>

Chars(name) ==
    CASE name = "conv.weight" -> <<"c","o","n","v",".","w","e","i","g","h","t">>
      [] name = "conv.bias"   -> <<"c","o","n","v",".","b","i","a","s">>
      [] name = "fc1.weight"  -> <<"f","c","1",".","w","e","i","g","h","t">>
      [] name = "fc1.bias"    -> <<"f","c","1",".","b","i","a","s">>

\* Python's  sub in s  on strings.
Contains(sub, s) ==
    \E k \in 0..(Len(s) - Len(sub)) : SubSeq(s, k + 1, k + Len(sub)) = sub

\* The test of the registration loop.
WantsZeroHookBiasOnly(name) == Contains(<<"b","i","a","s">>, Chars(name))

WantsZeroHook(name) ==
    /\ Contains(<<"f","c">>, Chars(name))
    /\ Contains(<<"b","i","a","s">>, Chars(name))

\* The hooks forward() registers on x.
XHooksCheckFirst == <<"print_neg", "clamp0">>

XHooks == <<"clamp0", "print_neg">>

\* net = myNet(), then the loop over named_parameters().
ProperSetup ==
    /\ cell = "proper"
    /\ hpc = "setup"
    /\ conv_w' \in ConvWeights
    /\ conv_b' \in ConvBiases
    /\ fc1_w' \in RowsEqual(OutFeatures, FlatLen)
    /\ param_hooks' = [n \in Range(ParamNames) |->
                          IF WantsZeroHook(n) THEN <<"zeros">> ELSE <<>>]
    /\ grads' = [n \in Range(ParamNames) |-> None]
    /\ hpc' = "forward"
    /\ UNCHANGED <<cell, stdout, expVars, seq_w, inp, x, x_hooks, conv_grad, hook_log, visVars>>
    /\ UNCHANGED <<loaderVars, gatherVars, trainVars>>

\* out = net(torch.randn(1, 3, 8, 8))
ProperForward ==
    /\ cell = "proper"
    /\ hpc = "forward"
    /\ \E i \in Inputs :
         /\ inp' = i
         /\ x' = ReLU(Conv2d(conv_w, conv_b, i))
    /\ x_hooks' = XHooks
    /\ hpc' = "backward"
    /\ UNCHANGED <<cell, stdout, expVars, conv_w, conv_b, fc1_w, seq_w,
                   param_hooks, grads, conv_grad, hook_log, visVars>>
    /\ UNCHANGED <<loaderVars, gatherVars, trainVars>>

\* The gradients autograd computes for (1 - out).mean().backward(), before
\* any hook on a parameter: g_out is d loss / d out, g_x the gradient of x
\* after the hooks on x, g_conv what ReLU passes back to the conv output.
OutGrad == [k \in 1..OutFeatures |-> 0 - (GradScale \div OutFeatures)]

XGradRaw ==
    [j \in 1..FlatLen |-> SumSeq([k \in 1..OutFeatures |-> fc1_w[k][j] * OutGrad[k]])]

ReluBackward(g) ==
    LET z == Conv2d(conv_w, conv_b, inp) IN
    [j \in DOMAIN g |-> IF z[j] > 0 THEN g[j] ELSE 0]

RawGrad(name, g_conv) ==
    CASE name = "fc1.bias"    -> OutGrad
      [] name = "fc1.weight"  -> [k \in 1..OutFeatures |-> [j \in 1..FlatLen |-> OutGrad[k] * x[j]]]
      [] name = "conv.bias"   -> <<SumSeq(g_conv)>>
      [] name = "conv.weight" -> <<SumSeq([j \in 1..FlatLen |-> g_conv[j] * inp[j]])>>

\* (1 - out).mean().backward()
ProperBackward ==
    /\ cell = "proper"
    /\ hpc = "backward"
    /\ LET rx     == RunHooks(x_hooks, HookStart(XGradRaw))
           g_conv == ReluBackward(rx.grad)
       IN  /\ hook_log' = rx.log
           /\ stdout' = stdout \o rx.out
           /\ conv_grad' = g_conv
           /\ grads' = [n \in DOMAIN grads |->
                          RunHooks(param_hooks[n], HookStart(RawGrad(n, g_conv))).grad]
    /\ hpc' = "print"
    /\ UNCHANGED <<cell, expVars, netVars, x, x_hooks, param_hooks, visVars>>
    /\ UNCHANGED <<loaderVars, gatherVars, trainVars>>

\* print("The biases are", net.fc1.bias.grad)
ProperPrint ==
    /\ cell = "proper"
    /\ hpc = "print"
    /\ stdout' = Append(stdout, <<"The biases are", grads["fc1.bias"]>>)
    /\ hpc' = "done"
    /\ UNCHANGED <<cell, expVars, netVars, bwdVars, visVars>>
    /\ UNCHANGED <<loaderVars, gatherVars, trainVars>>

\* ---- Visualizing Activations: forward hooks -----------------------------
\* The attributes myNet.__init__ assigns, in order; nn.Module keeps the
\* ones that are modules in net._modules, a lambda is a plain attribute.
InitAttrs ==
    << [name |-> "conv",    module |-> TRUE],
       [name |-> "relu",    module |-> TRUE],
       [name |-> "flatten", module |-> FALSE],
       [name |-> "fc1",     module |-> TRUE] >>

IsModule(a) == a.module

net_modules == SelectSeq(InitAttrs, IsModule)

\* hook_fn with an entry, once written, never replaced.
hook_fn_keep_first(vis, m, o) == IF m \in DOMAIN vis THEN vis ELSE DictSet(vis, m, o)

\* hook_fn(m, i, o): visualisation[m] = o
hook_fn(vis, m, o) == DictSet(vis, m, o)

\* Module.__call__: after forward, the module's forward hooks are run on
\* its output.
CallForwardHooks(fh, vis, m, o) ==
    IF m \in DOMAIN fh /\ fh[m] # <<>> THEN hook_fn(vis, m, o) ELSE vis

\* visualisation = {}; net = myNet(); the register_forward_hook loop.
FwdSetup ==
    /\ cell = "fwdhook"
    /\ hpc = "setup"
    /\ visualisation' = EmptyDict
    /\ conv_w' \in ConvWeights
    /\ conv_b' \in ConvBiases
    /\ fc1_w' \in RowsEqual(OutFeatures, FlatLen)
    /\ forward_hooks' = [m \in {a.name : a \in Range(net_modules)} |-> <<"hook_fn">>]
    /\ hpc' = "forward"
    /\ UNCHANGED <<cell, stdout, expVars, seq_w, inp, bwdVars, passes>>
    /\ UNCHANGED <<loaderVars, gatherVars, trainVars>>

\* out = net(inp): x = relu(conv(x)); fc1(flatten(x)).
FwdForward ==
    /\ cell = "fwdhook"
    /\ hpc = "forward"
    /\ passes < MaxPasses
    /\ \E i \in Inputs :
         LET c  == Conv2d(conv_w, conv_b, i)
             v1 == CallForwardHooks(forward_hooks, visualisation, "conv", c)
             r  == ReLU(c)
             v2 == CallForwardHooks(forward_hooks, v1, "relu", r)
             o  == Linear(fc1_w, flatten(r))
             v3 == CallForwardHooks(forward_hooks, v2, "fc1", o)
         IN  /\ inp' = i
             /\ visualisation' = v3
    /\ passes' = passes + 1
    /\ UNCHANGED <<cell, hpc, stdout, expVars, conv_w, conv_b, fc1_w, seq_w,
                   bwdVars, forward_hooks>>
    /\ UNCHANGED <<loaderVars, gatherVars, trainVars>>

\* ---- Visualizing Activations: the adjusted network ----------------------
\* net = myNet(), with self.seq and self.visualisation = {}.
VisSetup ==
    /\ cell = "visdict"
    /\ hpc = "setup"
    /\ visualisation' = EmptyDict
    /\ conv_w' \in ConvWeights
    /\ conv_b' \in ConvBiases
    /\ fc1_w' \in RowsEqual(OutFeatures, FlatLen)
    /\ \E w0 \in Uniform(SeqHidden, OutFeatures) : \E w1 \in Uniform(SeqOut, SeqHidden) :
         seq_w' = <<w0, w1>>
    /\ hpc' = "forward"
    /\ UNCHANGED <<cell, stdout, expVars, inp, bwdVars, forward_hooks, passes>>
    /\ UNCHANGED <<loaderVars, gatherVars, trainVars>>

\* nn.Sequential: the layers applied one after the other.
Sequential(ws, xin) == Linear(ws[2], Linear(ws[1], xin))

\* out = net(torch.randn(1, 3, 8, 8))
VisForward ==
    /\ cell = "visdict"
    /\ hpc = "forward"
    /\ \E i \in Inputs :
         LET x1 == ReLU(Conv2d(conv_w, conv_b, i))
             x2 == Linear(fc1_w, flatten(x1))
             v1 == DictSet(visualisation, "fc1_output", x2)
             x3 == Sequential(seq_w, x2)
             v2 == DictSet(v1, "seq_output", x3)
         IN  /\ inp' = i
             /\ visualisation' = v2
    /\ passes' = passes + 1
    /\ hpc' = "print"
    /\ UNCHANGED <<cell, stdout, expVars, conv_w, conv_b, fc1_w, seq_w,
                   bwdVars, forward_hooks>>
    /\ UNCHANGED <<loaderVars, gatherVars, trainVars>>

\* print(net.visualisation.keys())
VisPrint ==
    /\ cell = "visdict"
    /\ hpc = "print"
    /\ stdout' = Append(stdout, <<"dict_keys", DOMAIN visualisation>>)
    /\ hpc' = "done"
    /\ UNCHANGED <<cell, expVars, netVars, bwdVars, visVars>>
    /\ UNCHANGED <<loaderVars, gatherVars, trainVars>>

\* ---- the notebook's cells, each run on its own ---------------------------
HooksInit ==
    /\ cell \in {"experiment", "proper", "fwdhook", "visdict"}
    /\ hpc = (IF cell = "experiment" THEN "exp1" ELSE "setup")
    /\ HooksReset
    /\ LoaderIdle
    /\ GatherIdle
    /\ TrainIdle

HooksNext ==
    \/ \E e \in {1, 2} : Experiment(e)
    \/ ProperSetup
    \/ ProperForward
    \/ ProperBackward
    \/ ProperPrint
    \/ FwdSetup
    \/ FwdForward
    \/ VisSetup
    \/ VisForward
    \/ VisPrint

SpecHooks == HooksInit /\ [][HooksNext]_vars

(***************************************************************************)
(* Claims about hooks                                                      *)
(***************************************************************************)
ProperBackwardDone == cell = "proper" /\ hpc \in {"print", "done"}

\* C6: the two hooks on the ReLU output run in registration order: the
\* clamp hook runs first, on the gradient autograd computed, and the check
\* hook receives the clamped result, so it prints "Gradients less than
\* zero: False"; no negative gradient reaches the conv layer.
C6_ClampRunsBeforeCheck ==
    ProperBackwardDone =>
        /\ Len(hook_log) = 2
        /\ hook_log[1] = [hook |-> "clamp0", grad |-> XGradRaw]
        /\ hook_log[2].hook = "print_neg"
        /\ hook_log[2].grad = [j \in 1..FlatLen |->
                                 IF XGradRaw[j] < 0 THEN 0 ELSE XGradRaw[j]]
        /\ stdout[1] = <<"Gradients less than zero:", FALSE>>
        /\ \A j \in 1..FlatLen : conv_grad[j] >= 0

\* A backward pass whose gradient at x had a negative and a positive entry,
\* the positive one reaching the conv layer.
C6_Witness ==
    /\ ProperBackwardDone
    /\ \E j \in 1..FlatLen : XGradRaw[j] < 0
    /\ \E j \in 1..FlatLen : conv_grad[j] > 0

\* C7: after the backward pass net.fc1.bias.grad is a zero vector of length
\* 5 (and is printed as such), fc1.bias being the only parameter with a
\* hook; every other parameter keeps the gradient autograd computed.
C7_OnlyFcBiasGradZeroed ==
    ProperBackwardDone =>
        /\ grads["fc1.bias"] = <<0, 0, 0, 0, 0>>
        /\ \A n \in {"conv.weight", "conv.bias", "fc1.weight"} :
              grads[n] = RawGrad(n, conv_grad)
        /\ hpc = "done" => stdout[Len(stdout)] = <<"The biases are", <<0, 0, 0, 0, 0>> >>

\* The cell has finished, the computed bias gradient of fc1 was not zero,
\* and the conv bias kept a non-zero gradient.
C7_Witness ==
    /\ cell = "proper"
    /\ hpc = "done"
    /\ RawGrad("fc1.bias", conv_grad) # <<0, 0, 0, 0, 0>>
    /\ grads["conv.bias"] # <<0>>

\* C8: with the hook multiplying b's gradient by 2, the gradient of the
\* leaf a is twice what it is without the hook: 0.8 per element in
\* Experiment 2, 0.4 in Experiment 1.
C8_HookDoublesLeafGradient ==
    (cell = "experiment" /\ hpc = "done") =>
        /\ a_grad[1] = <<4, 4, 4, 4, 4>>
        /\ a_grad[2] = <<8, 8, 8, 8, 8>>
        /\ \A k \in 1..5 : a_grad[2][k] = 2 * a_grad[1][k]

\* Both experiments have run, the second with the hook on b.
C8_Witness ==
    /\ cell = "experiment"
    /\ hpc = "done"
    /\ b_hooks = <<"retain_grad", "mul2">>
    /\ Len(stdout) = 6

\* C9: after a forward pass, visualisation has exactly the entries conv,
\* relu and fc1 (flatten is no submodule), each the output that submodule
\* produced in the most recent forward pass; a later pass overwrites them.
C9_VisualisationHoldsLatestOutputs ==
    (cell = "fwdhook" /\ passes >= 1) =>
        /\ DOMAIN visualisation = {"conv", "relu", "fc1"}
        /\ visualisation["conv"] = Conv2d(conv_w, conv_b, inp)
        /\ visualisation["relu"] = ReLU(Conv2d(conv_w, conv_b, inp))
        /\ visualisation["fc1"] = Linear(fc1_w, ReLU(Conv2d(conv_w, conv_b, inp)))

\* A second forward pass has run and left three entries.
C9_Witness ==
    /\ cell = "fwdhook"
    /\ passes >= 2
    /\ Cardinality(DOMAIN visualisation) = 3
    /\ \E j \in 1..FlatLen : visualisation["relu"][j] > 0

\* The layers of the adjusted network and what each produced for inp.
VisLayers == {"conv", "relu", "fc1", "seq.0", "seq.1"}

LayerOutput(l) ==
    LET c == Conv2d(conv_w, conv_b, inp)
        r == ReLU(c)
        f == Linear(fc1_w, flatten(r))
        s == Linear(seq_w[1], f)
    IN  CASE l = "conv"  -> c
          [] l = "relu"  -> r
          [] l = "fc1"   -> f
          [] l = "seq.0" -> s
          [] l = "seq.1" -> Linear(seq_w[2], s)

\* C10: one forward pass of the adjusted network captures in
\* net.visualisation the output of every layer, the individual layers
\* inside the sequential block included.
C10_AllLayersCaptured ==
    (cell = "visdict" /\ hpc \in {"print", "done"}) =>
        \A l \in VisLayers :
            \E k \in DOMAIN visualisation : visualisation[k] = LayerOutput(l)

(***************************************************************************)
(* TRAINING LOOP                                                           *)
(*                                                                         *)
(* Learning rates are stored in thousandths (0.1 is 100).                  *)
(***************************************************************************)
NumTrainBatches == 2   \* batches of train_dataloader explored
NumTestBatches  == 2   \* batches of test_dataloader explored
TestBatchSize   == 1   \* targets.size(0) of a test batch explored
NumEpochs       == 10  \* for epoch in range(10)
InitialLr       == 100 \* optim.SGD(..., lr=0.1, ...)

\* MultiStepLR(optimizer, milestones=[150, 200], gamma=0.1)
Milestones == <<150, 200>>
TimesGamma(v) == v \div 10

\* scheduler.step(): last_epoch advances by one; on a milestone the
\* learning rate is multiplied by gamma, otherwise it stays.
MultiStepLRStep(le, rate) ==
    [last_epoch |-> le + 1,
     lr |-> IF le + 1 \in Range(Milestones) THEN TimesGamma(rate) ELSE rate]

\* The state after the set-up cell: optimizer and scheduler constructed,
\* the loop about to start its first epoch.
TrainInit ==
    /\ tpc = "train"
    /\ epoch = 0
    /\ lr = InitialLr
    /\ last_epoch = 0
    /\ step_lr = 0
    /\ train_i = 0
    /\ test_i = 0
    /\ total = 0
    /\ correct = 0
    /\ training = TRUE
    /\ printed = <<>>
    /\ LoaderIdle
    /\ GatherIdle
    /\ HooksIdle

\* One iteration of the loop over train_dataloader, ending in optimizer.step().
TrainBatch ==
    /\ tpc = "train"
    /\ train_i < NumTrainBatches
    /\ train_i' = train_i + 1
    /\ step_lr' = lr
    /\ UNCHANGED <<tpc, epoch, lr, last_epoch, test_i, total, correct, training, printed>>
    /\ UNCHANGED <<loaderVars, gatherVars, hookVars>>

\* train_dataloader exhausted: clf.eval(); total = 0; correct = 0.
StartEval ==
    /\ tpc = "train"
    /\ train_i = NumTrainBatches
    /\ tpc' = "eval"
    /\ training' = FALSE
    /\ total' = 0
    /\ correct' = 0
    /\ test_i' = 0
    /\ UNCHANGED <<epoch, lr, last_epoch, step_lr, train_i, printed>>
    /\ UNCHANGED <<loaderVars, gatherVars, hookVars>>

\* One iteration of the loop over test_dataloader.
EvalBatch ==
    /\ tpc = "eval"
    /\ test_i < NumTestBatches
    /\ \E hits \in 0..TestBatchSize :
         /\ total' = total + TestBatchSize
         /\ correct' = correct + hits
    /\ test_i' = test_i + 1
    /\ UNCHANGED <<tpc, epoch, lr, last_epoch, step_lr, train_i, training, printed>>
    /\ UNCHANGED <<loaderVars, gatherVars, hookVars>>

\* test_dataloader exhausted: print the accuracy, clf.train(),
\* scheduler.step(), and the for loop takes its next epoch or ends.
EndEpoch ==
    /\ tpc = "eval"
    /\ test_i = NumTestBatches
    /\ printed' = <<epoch, correct, total>>
    /\ training' = TRUE
    /\ LET s == MultiStepLRStep(last_epoch, lr) IN
         /\ last_epoch' = s.last_epoch
         /\ lr' = s.lr
    /\ IF epoch + 1 < NumEpochs
       THEN /\ epoch' = epoch + 1
            /\ tpc' = "train"
            /\ train_i' = 0
       ELSE /\ tpc' = "done"
            /\ UNCHANGED <<epoch, train_i>>
    /\ UNCHANGED <<step_lr, test_i, total, correct>>
    /\ UNCHANGED <<loaderVars, gatherVars, hookVars>>

TrainNext == TrainBatch \/ StartEval \/ EvalBatch \/ EndEpoch

SpecTrain == TrainInit /\ [][TrainNext]_vars

(***************************************************************************)
(* Claims about the training loop                                          *)
(***************************************************************************)
\* C11: during the training run the learning rate starts at 0.1, is
\* reduced by a factor of 0.1 at epoch 150 and again at epoch 200: it is
\* 0.1 before epoch 150, 0.01 from epoch 150 and 0.001 from epoch 200, and
\* the run gets past both reductions.
C11_LrReducedAt150And200 ==
    /\ tpc # "off" =>
         lr = (IF last_epoch < 150 THEN 100 ELSE IF last_epoch < 200 THEN 10 ELSE 1)
    /\ tpc = "done" => (last_epoch >= 200 /\ lr = 1)

====
